---------------------------- MODULE Spec2Model ----------------------------
(* A model of the GTK file manager in src/main.c: the AppWidgets state      *)
(* (current_dir, the rows of the list box, the selected row, the editor     *)
(* buffer, selected_file_path), the filesystem the handlers act on, and one *)
(* action per signal handler.  Texts (paths, names) are sequences of        *)
(* one-character strings; file contents are sequences of bytes.             *)
EXTENDS Integers, Sequences, FiniteSets, TLC

(***************************************************************************)
(* Bounds of the model.                                                    *)
(***************************************************************************)
\* the most changes of the filesystem in one run of the program
MaxChanges == 1
\* the longest text the user types into the editor
MaxLen == 1

(***************************************************************************)
(* Texts and path arithmetic (GLib, as called from main.c).                *)
(***************************************************************************)
Sep == "/"

\* the number of leading separators of s
RECURSIVE LeadSeps(_)
LeadSeps(s) ==
    IF s = << >> \/ Head(s) # Sep THEN 0 ELSE 1 + LeadSeps(Tail(s))

\* the number of trailing separators of s
RECURSIVE TrailSeps(_)
TrailSeps(s) ==
    IF s = << >> \/ s[Len(s)] # Sep THEN 0
    ELSE 1 + TrailSeps(SubSeq(s, 1, Len(s) - 1))

\* s without its leading and trailing separators
Middle(s) ==
    LET k == LeadSeps(s)
    IN  IF k = Len(s) THEN << >> ELSE SubSeq(s, k + 1, Len(s) - TrailSeps(s))

\* g_build_filename(dir, name, NULL): the leading separators of the first
\* element are kept, the elements are joined by one separator, the trailing
\* separators of the last element are kept; an empty element is ignored.
g_build_filename(dir, name) ==
    IF name = << >> THEN dir
    ELSE LET d == Middle(dir)
             n == Middle(name)
         IN  SubSeq(dir, 1, LeadSeps(dir))
             \o d
             \o (IF d # << >> /\ n # << >> THEN <<Sep>> ELSE << >>)
             \o n
             \o SubSeq(name, Len(name) - TrailSeps(name) + 1, Len(name))

\* g_path_get_dirname that keeps the separators before the last component
g_path_get_dirname_KeepsSeparator(file_name) ==
    IF \A i \in 1..Len(file_name) : file_name[i] # Sep THEN <<".">>
    ELSE SubSeq(file_name, 1, CHOOSE i \in 1..Len(file_name) :
                                 /\ file_name[i] = Sep
                                 /\ \A j \in (i + 1)..Len(file_name) : file_name[j] # Sep)

\* g_path_get_dirname(file_name): "." without a separator; else the text up
\* to the last separator, less the separators that end it, but never less
\* than the first character.
g_path_get_dirname(file_name) ==
    IF \A i \in 1..Len(file_name) : file_name[i] # Sep THEN <<".">>
    ELSE LET last == CHOOSE i \in 1..Len(file_name) :
                        /\ file_name[i] = Sep
                        /\ \A j \in (i + 1)..Len(file_name) : file_name[j] # Sep
             \* while (base > file_name && G_IS_DIR_SEPARATOR(*base)) base--
             base == CHOOSE b \in 1..last :
                        /\ \A j \in (b + 1)..last : file_name[j] = Sep
                        /\ (b = 1 \/ file_name[b] # Sep)
         IN  SubSeq(file_name, 1, base)

\* g_str_has_suffix(str, suffix) for a one-character suffix
g_str_has_suffix(str, c) == Len(str) > 0 /\ str[Len(str)] = c

\* the number of characters of s before its first separator
RECURSIVE NameLen(_)
NameLen(s) ==
    IF s = << >> \/ Head(s) = Sep THEN 0 ELSE 1 + NameLen(Tail(s))

\* the components of a path text: its maximal runs of non-separators
RECURSIVE Split(_)
Split(s) ==
    IF s = << >> THEN << >>
    ELSE IF Head(s) = Sep THEN Split(Tail(s))
    ELSE LET k == NameLen(s)
         IN  <<SubSeq(s, 1, k)>> \o Split(SubSeq(s, k + 1, Len(s)))

(***************************************************************************)
(* The filesystem: a function from node paths (sequences of names, << >>   *)
(* the root) to nodes.  Only the read permission of a node is modelled:    *)
(* every directory can be searched and written.                            *)
(***************************************************************************)
Dir(r) == [kind |-> "dir", content |-> << >>, readable |-> r]
File(c, r) == [kind |-> "file", content |-> c, readable |-> r]

Parent(node) == IF node = << >> THEN << >> ELSE SubSeq(node, 1, Len(node) - 1)

IsPrefix(p, q) == Len(p) <= Len(q) /\ SubSeq(q, 1, Len(p)) = p

Children(f, node) == {n \in DOMAIN f : Len(n) = Len(node) + 1 /\ IsPrefix(node, n)}

\* the directory the process was started in, here the root: relative paths
\* resolve from it
CwdNode == << >>
CwdText == <<"/">>

Found(node) == [ok |-> TRUE, node |-> node, err |-> "none"]
Failed(e) == [ok |-> FALSE, node |-> << >>, err |-> e]

\* the kernel's walk over the components of a path
RECURSIVE Walk(_, _, _)
Walk(f, node, comps) ==
    IF comps = << >> THEN Found(node)
    ELSE IF f[node].kind # "dir" THEN Failed("ENOTDIR")
    ELSE LET c == Head(comps) IN
         IF c = <<".">> THEN Walk(f, node, Tail(comps))
         ELSE IF c = <<".", ".">> THEN Walk(f, Parent(node), Tail(comps))
         ELSE IF (node \o <<c>>) \in DOMAIN f
              THEN Walk(f, node \o <<c>>, Tail(comps))
              ELSE Failed("ENOENT")

\* path resolution: a path that ends with a separator names a directory
Lookup(f, path) ==
    IF path = << >> THEN Failed("ENOENT")
    ELSE LET r == Walk(f, IF Head(path) = Sep THEN << >> ELSE CwdNode, Split(path))
         IN  IF r.ok /\ path[Len(path)] = Sep /\ f[r.node].kind # "dir"
             THEN Failed("ENOTDIR") ELSE r

\* an existence test that never finds anything
FileTestExists_Never(f, path) == FALSE

\* g_file_test(path, G_FILE_TEST_EXISTS)
FileTestExists(f, path) == Lookup(f, path).ok

\* G_FILE_TEST_IS_REGULAR in the place of G_FILE_TEST_IS_DIR
FileTestIsDir_RegularTest(f, path) ==
    LET r == Lookup(f, path) IN r.ok /\ f[r.node].kind = "file"

\* g_file_test(path, G_FILE_TEST_IS_DIR)
FileTestIsDir(f, path) ==
    LET r == Lookup(f, path) IN r.ok /\ f[r.node].kind = "dir"


\* the result of a filesystem call: whether it succeeded, errno, the filesystem after it
Done(f) == [ok |-> TRUE, err |-> "none", fs |-> f]
Fail(e, f) == [ok |-> FALSE, err |-> e, fs |-> f]

\* f with node n set to v (added when it is new)
Put(f, n, v) == [m \in DOMAIN f \cup {n} |-> IF m = n THEN v ELSE f[m]]

\* f without node n and everything below it
Without(f, n) == [m \in {k \in DOMAIN f : ~IsPrefix(n, k)} |-> f[m]]

\* the directory a new last component of path would be put in
ParentOf(f, path) ==
    LET comps == Split(path)
    IN  Walk(f, IF Head(path) = Sep THEN << >> ELSE CwdNode,
             SubSeq(comps, 1, Len(comps) - 1))

\* the last component of path
LastOf(path) == Split(path)[Len(Split(path))]

IsDots(c) == c = <<".">> \/ c = <<".", ".">>

\* mkdir(2), as g_mkdir calls it
g_mkdir(f, path) ==
    IF path = << >> THEN Fail("ENOENT", f)
    ELSE IF Split(path) = << >> THEN Fail("EEXIST", f)
    ELSE LET p == ParentOf(f, path)
             c == LastOf(path)
         IN  IF ~p.ok THEN Fail(p.err, f)
             ELSE IF f[p.node].kind # "dir" THEN Fail("ENOTDIR", f)
             ELSE IF IsDots(c) \/ (p.node \o <<c>>) \in DOMAIN f THEN Fail("EEXIST", f)
             ELSE Done(Put(f, p.node \o <<c>>, Dir(TRUE)))

\* the ends of the prefixes g_mkdir_with_parents tries in turn: the end of
\* each component, and the end of the path
PrefixEnds(path) ==
    {i \in 1..Len(path) : i = Len(path) \/ (path[i] # Sep /\ path[i + 1] = Sep)}

\* the loop of g_mkdir_with_parents over the prefixes that end at `ends`
RECURSIVE MkdirWalk(_, _, _)
MkdirWalk(f, path, ends) ==
    IF ends = {} THEN Done(f)
    ELSE LET i == CHOOSE e \in ends : \A o \in ends : e <= o
             fn == SubSeq(path, 1, i)
             isLast == i = Len(path)
         IN  IF ~FileTestExists(f, fn)
             THEN LET m == g_mkdir(f, fn)
                  IN  IF ~m.ok /\ m.err # "EEXIST" /\ (m.err # "ENOENT" \/ isLast)
                      THEN Fail(m.err, f)
                      ELSE MkdirWalk(m.fs, path, ends \ {i})
             ELSE IF ~FileTestIsDir(f, fn) THEN Fail("ENOTDIR", f)
             ELSE MkdirWalk(f, path, ends \ {i})

\* g_mkdir_with_parents(pathname, 0755): the whole path first, then each
\* prefix in turn; the directories made before a failure stay
g_mkdir_with_parents(f, pathname) ==
    IF pathname = << >> THEN Fail("EINVAL", f)
    ELSE LET m == g_mkdir(f, pathname)
         IN  IF m.ok THEN m
             ELSE IF m.err = "EEXIST"
             THEN (IF FileTestIsDir(f, pathname) THEN Done(f) ELSE Fail("ENOTDIR", f))
             ELSE MkdirWalk(f, pathname, PrefixEnds(pathname))

\* the C string a buffer of bytes holds: the bytes before the first NUL
CStr(text) ==
    IF \A i \in 1..Len(text) : text[i] # 0 THEN text
    ELSE SubSeq(text, 1, (CHOOSE i \in 1..Len(text) :
                             text[i] = 0 /\ \A j \in 1..(i - 1) : text[j] # 0) - 1)

\* g_file_set_contents that appends to the file it finds
g_file_set_contents_Append(f, path, contents) ==
    IF path = << >> \/ Split(path) = << >> \/ path[Len(path)] = Sep THEN Fail("EISDIR", f)
    ELSE LET p == ParentOf(f, path)
             c == LastOf(path)
         IN  IF ~p.ok THEN Fail(p.err, f)
             ELSE IF f[p.node].kind # "dir" THEN Fail("ENOTDIR", f)
             ELSE IF IsDots(c) THEN Fail("EISDIR", f)
             ELSE IF (p.node \o <<c>>) \in DOMAIN f /\ f[p.node \o <<c>>].kind = "dir"
                  THEN Fail("EISDIR", f)
             ELSE IF (p.node \o <<c>>) \in DOMAIN f
                  THEN Done(Put(f, p.node \o <<c>>,
                                File(f[p.node \o <<c>>].content \o contents, TRUE)))
             ELSE Done(Put(f, p.node \o <<c>>, File(contents, TRUE)))

\* g_file_set_contents(filename, contents, length): a temporary file beside
\* the target is written and renamed over it, so the target is replaced whole
\* or not at all; it fails when the directory is missing or the target is a
\* directory
g_file_set_contents(f, path, contents) ==
    IF path = << >> \/ Split(path) = << >> \/ path[Len(path)] = Sep THEN Fail("EISDIR", f)
    ELSE LET p == ParentOf(f, path)
             c == LastOf(path)
         IN  IF ~p.ok THEN Fail(p.err, f)
             ELSE IF f[p.node].kind # "dir" THEN Fail("ENOTDIR", f)
             ELSE IF IsDots(c) THEN Fail("EISDIR", f)
             ELSE IF (p.node \o <<c>>) \in DOMAIN f /\ f[p.node \o <<c>>].kind = "dir"
                  THEN Fail("EISDIR", f)
             ELSE Done(Put(f, p.node \o <<c>>, File(contents, TRUE)))

\* g_file_get_contents(filename, &contents, &len, &err)
g_file_get_contents(f, path) ==
    LET r == Lookup(f, path)
    IN  IF ~r.ok THEN [ok |-> FALSE, contents |-> << >>]
        ELSE IF f[r.node].kind # "file" \/ ~f[r.node].readable
             THEN [ok |-> FALSE, contents |-> << >>]
        ELSE [ok |-> TRUE, contents |-> f[r.node].content]

\* g_file_delete(file, cancellable, &err): unlink for a file, rmdir for a
\* directory, which must be empty
g_file_delete(f, path) ==
    LET r == Lookup(f, path)
    IN  IF ~r.ok THEN Fail(r.err, f)
        ELSE IF r.node = << >> THEN Fail("EBUSY", f)
        ELSE IF f[r.node].kind = "dir" /\ Children(f, r.node) # {}
             THEN Fail("ENOTEMPTY", f)
        ELSE Done(Without(f, r.node))

\* rename(2): the node at oldpath, with everything below it, moves to newpath
rename(f, oldpath, newpath) ==
    LET o == Lookup(f, oldpath)
    IN  IF ~o.ok THEN Fail(o.err, f)
        ELSE IF newpath = << >> \/ Split(newpath) = << >> THEN Fail("EBUSY", f)
        ELSE LET p == ParentOf(f, newpath)
                 c == LastOf(newpath)
                 t == p.node \o <<c>>
             IN  IF ~p.ok THEN Fail(p.err, f)
                 ELSE IF f[p.node].kind # "dir" THEN Fail("ENOTDIR", f)
                 ELSE IF IsDots(c) THEN Fail("EBUSY", f)
                 ELSE IF newpath[Len(newpath)] = Sep /\ f[o.node].kind # "dir"
                      THEN Fail("ENOTDIR", f)
                 ELSE IF t = o.node THEN Done(f)
                 ELSE IF IsPrefix(o.node, t) THEN Fail("EINVAL", f)
                 ELSE IF t \in DOMAIN f /\ f[t].kind = "dir" /\ f[o.node].kind # "dir"
                      THEN Fail("EISDIR", f)
                 ELSE IF t \in DOMAIN f /\ f[t].kind # "dir" /\ f[o.node].kind = "dir"
                      THEN Fail("ENOTDIR", f)
                 ELSE IF t \in DOMAIN f /\ Children(f, t) # {} THEN Fail("ENOTEMPTY", f)
                 ELSE IF IsPrefix(t, o.node) THEN Fail("ENOTEMPTY", f)
                 ELSE LET kept == {k \in DOMAIN f : ~IsPrefix(o.node, k) /\ k # t}
                          moved == {t \o SubSeq(k, Len(o.node) + 1, Len(k)) :
                                      k \in {n \in DOMAIN f : IsPrefix(o.node, n)}}
                      IN  Done([m \in kept \cup moved |->
                                  IF m \in moved
                                  THEN f[o.node \o SubSeq(m, Len(t) + 1, Len(m))]
                                  ELSE f[m]])

(***************************************************************************)
(* The widgets.                                                            *)
(***************************************************************************)
\* the bytes the user types into the editor; 0 is the NUL byte, which only a
\* file on disk holds
EditorBytes == {1}

RECURSIVE TextsUpTo(_)
TextsUpTo(n) ==
    IF n = 0 THEN {<< >>}
    ELSE TextsUpTo(n - 1)
         \cup {Append(t, b) : t \in {u \in TextsUpTo(n - 1) : Len(u) = n - 1},
                              b \in EditorBytes}

EditorTexts == TextsUpTo(MaxLen)

\* the texts the user types into the name entry
EntryTexts ==
    { << >>, <<"c">>, <<"c", "/">>, <<"a", "/">>, <<"B", "/", "a">>, <<"B", "/", "c">>,
      <<"B", "/", "L">>, <<"c", "\\">>, <<"c", "/", ".", ".", "/", "a", "/">> }

\* gtk_text_buffer_set_text(buf, contents, len): the buffer is emptied, and
\* the text is inserted when it is valid UTF-8 (a NUL byte is not)
gtk_text_buffer_set_text(contents) ==
    IF \A i \in 1..Len(contents) : contents[i] # 0 THEN contents ELSE << >>

\* a selected_file_path of NULL
NULL == << >>

\* the orders of a finite set
RECURSIVE Orders(_)
Orders(S) ==
    IF S = {} THEN {<< >>}
    ELSE UNION {{<<x>> \o o : o \in Orders(S \ {x})} : x \in S}

\* g_dir_open(current_dir, 0, NULL)
g_dir_open(f, path) ==
    LET r == Lookup(f, path)
    IN  r.ok /\ f[r.node].kind = "dir" /\ f[r.node].readable

\* the names g_dir_read_name returns: "." and ".." are never among them
g_dir_read_names(f, path) ==
    {n[Len(n)] : n \in Children(f, Lookup(f, path).node)}

\* g_ptr_array_sort(entries, (GCompareFunc)g_ascii_strcasecmp): the compare
\* function of g_ptr_array_sort is handed pointers to the array's slots, so
\* g_ascii_strcasecmp reads the bytes of the slots, the addresses of the
\* names, not the names.  The order that results is the order of the heap
\* addresses g_strdup returned, which can be any order of the names.
g_ptr_array_sort(names) == Orders(names)

\* the row refresh_file_list builds for an entry: its name and its icon
Row(f, dir, entryName) ==
    [name |-> entryName,
     folder |-> FileTestIsDir(f, g_build_filename(dir, entryName))]

\* the lists of rows refresh_file_list can fill the list box with; none when
\* the directory cannot be opened
Listings(f, dir) ==
    IF ~g_dir_open(f, dir) THEN {<< >>}
    ELSE LET names == g_dir_read_names(f, dir)
             row == [n \in names |-> Row(f, dir, n)]
         IN  {[i \in 1..Len(o) |-> row[o[i]]] : o \in g_ptr_array_sort(names)}

VARIABLES
    fs,                  \* the filesystem
    current_dir,         \* w->current_dir
    listing,             \* the rows of w->listbox, top to bottom
    selected,            \* the index of the selected row of w->listbox, 0 for none
    editor,              \* the text of w->textview's buffer
    selected_file_path,  \* w->selected_file_path
    loaded,              \* the path of the file the editor's text was read from
    last,                \* the last event handled and the dialog it ended with
    changes              \* the number of times the filesystem was changed

vars ==
    <<fs, current_dir, listing, selected, editor, selected_file_path, loaded, last, changes>>

\* the record kept of an event: the handler, the dialog it ended with, and
\* current_dir when the handler began
Event(op, res, dir) == [op |-> op, res |-> res, dir |-> dir]

\* the filesystem the program starts on: the working directory holds a file
\* a, whose bytes include a NUL, and a directory B; B holds a file c and a
\* directory L, neither of which can be read
InitFs ==
    [n \in { << >>, << <<"a">> >>, << <<"B">> >>, << <<"B">>, <<"c">> >>,
             << <<"B">>, <<"L">> >> } |->
        IF n = << <<"a">> >> THEN File(<<2, 0>>, TRUE)
        ELSE IF n = << <<"B">>, <<"c">> >> THEN File(<<2>>, FALSE)
        ELSE IF n = << <<"B">>, <<"L">> >> THEN Dir(FALSE)
        ELSE Dir(TRUE)]

\* main: current_dir is the working directory, then refresh_file_list
Init ==
    /\ fs = InitFs
    /\ current_dir = CwdText
    /\ listing \in Listings(fs, current_dir)
    /\ selected = 0
    /\ editor = << >>
    /\ selected_file_path = NULL
    /\ loaded = NULL
    /\ last = Event("main", "none", CwdText)
    /\ changes = 0

\* refresh_file_list that leaves the text of the editor as it is
refresh_file_list_KeepsEditor(f, dir) ==
    /\ listing' \in Listings(f, dir)
    /\ selected' = 0
    /\ editor' = editor
    /\ selected_file_path' = NULL
    /\ loaded' = NULL

\* refresh_file_list(w) on filesystem f with current_dir dir: the rows are
\* destroyed (nothing stays selected), the editor is emptied,
\* selected_file_path is freed, and the list box is filled again
refresh_file_list(f, dir) ==
    /\ listing' \in Listings(f, dir)
    /\ selected' = 0
    /\ editor' = << >>
    /\ selected_file_path' = NULL
    /\ loaded' = NULL

\* the outcomes of stat(path, &file_stat) == 0: it fails on a path that does
\* not resolve, and can fail on one that does (EOVERFLOW, EIO)
stat(f, path) == IF Lookup(f, path).ok THEN BOOLEAN ELSE {FALSE}

\* on_row_activated that shows the content only when stat has succeeded
row_activated_StatBeforeContent(f, i, op) ==
    LET entryName == listing[i].name
        path == g_build_filename(current_dir, entryName)
    IN  IF FileTestIsDir(f, path)
        THEN /\ current_dir' = path
             /\ refresh_file_list(f, path)
             /\ last' = Event(IF op = "activate" THEN "descend" ELSE op,
                              IF g_dir_open(f, path) THEN "ok" ELSE "NavigationError",
                              current_dir)
        ELSE LET r == g_file_get_contents(f, path)
             IN  /\ selected' = i
                 /\ selected_file_path' = NULL
                 /\ loaded' = (IF r.ok THEN path ELSE NULL)
                 /\ \E stat_ok \in stat(f, path) :
                        /\ editor' = (IF r.ok /\ stat_ok
                                      THEN gtk_text_buffer_set_text(r.contents) ELSE << >>)
                        /\ last' = Event(IF op = "activate" THEN "read" ELSE op,
                                         IF ~r.ok THEN "ReadError"
                                         ELSE IF stat_ok THEN "ok"
                                         ELSE "MetadataUnavailable",
                                         current_dir)
                 /\ UNCHANGED <<current_dir, listing>>

\* on_row_activated(box, row, w) on filesystem f, for the row at index i
row_activated(f, i, op) ==
    LET entryName == listing[i].name
        path == g_build_filename(current_dir, entryName)
    IN  IF FileTestIsDir(f, path)
        THEN /\ current_dir' = path
             /\ refresh_file_list(f, path)
             /\ last' = Event(IF op = "activate" THEN "descend" ELSE op,
                              IF g_dir_open(f, path) THEN "ok" ELSE "NavigationError",
                              current_dir)
        ELSE LET r == g_file_get_contents(f, path)
             IN  /\ editor' = (IF r.ok THEN gtk_text_buffer_set_text(r.contents) ELSE << >>)
                 /\ selected' = i
                 /\ selected_file_path' = NULL
                 /\ loaded' = (IF r.ok THEN path ELSE NULL)
                 /\ \E stat_ok \in stat(f, path) :
                        last' = Event(IF op = "activate" THEN "read" ELSE op,
                                      IF ~r.ok THEN "ReadError"
                                      ELSE IF stat_ok THEN "ok"
                                      ELSE "MetadataUnavailable",
                                      current_dir)
                 /\ UNCHANGED <<current_dir, listing>>

\* a click (or Enter) on the row at index i: the list box selects the row and
\* emits row-activated
on_row_activated(i) ==
    /\ i \in 1..Len(listing)
    /\ fs' = fs
    /\ row_activated(fs, i, "activate")
    /\ UNCHANGED changes

\* the list box's selection moved by the keyboard, or dropped (i = 0) by a
\* Ctrl-click: no handler of main.c runs
SelectRow(i) ==
    /\ i \in 0..Len(listing)
    /\ i # selected
    /\ selected' = i
    /\ last' = Event("select", "none", current_dir)
    /\ UNCHANGED <<fs, current_dir, listing, editor, selected_file_path, loaded, changes>>

\* the user edits the text of the editor
EditText(t) ==
    /\ t \in EditorTexts
    /\ t # editor
    /\ editor' = t
    /\ last' = Event("edit", "none", current_dir)
    /\ UNCHANGED <<fs, current_dir, listing, selected, selected_file_path, loaded, changes>>

\* the count of the filesystem's changes after a handler, which changes the
\* filesystem only while fewer than MaxChanges changes were made
Count ==
    /\ changes' = IF fs' = fs THEN changes ELSE changes + 1
    /\ changes' <= MaxChanges

\* on_new_clicked(btn, w) with `name` in the name entry
on_new_clicked(name) ==
    /\ IF name = << >>
          THEN /\ last' = Event("new", "EmptyName", current_dir)
               /\ UNCHANGED <<fs, current_dir, listing, selected, editor,
                              selected_file_path, loaded, changes>>
          ELSE LET fullpath == g_build_filename(current_dir, name)
                   is_dir == g_str_has_suffix(name, "/") \/ g_str_has_suffix(name, "\\")
                   made == IF is_dir THEN g_mkdir_with_parents(fs, fullpath)
                           ELSE g_file_set_contents(fs, fullpath, << >>)
               IN  IF FileTestExists(fs, fullpath)
                   THEN /\ last' = Event("new", "AlreadyExists", current_dir)
                        /\ UNCHANGED <<fs, current_dir, listing, selected, editor,
                                       selected_file_path, loaded, changes>>
                   ELSE IF ~made.ok
                   THEN /\ fs' = made.fs
                        /\ Count
                        /\ last' = Event("new", "CreateError", current_dir)
                        /\ UNCHANGED <<current_dir, listing, selected, editor,
                                       selected_file_path, loaded>>
                   ELSE /\ fs' = made.fs
                        /\ Count
                        /\ refresh_file_list(made.fs, current_dir)
                        /\ last' = Event("new", "ok", current_dir)
                        /\ UNCHANGED current_dir

\* on_save_clicked(btn, w)
on_save_clicked ==
    /\ IF selected = 0
       THEN /\ last' = Event("save", "NoSelection", current_dir)
            /\ UNCHANGED <<fs, current_dir, listing, selected, editor,
                           selected_file_path, loaded, changes>>
       ELSE LET name == listing[selected].name
                fullpath == g_build_filename(current_dir, name)
                \* gtk_text_buffer_get_text, written with length -1
                saved == g_file_set_contents(fs, fullpath, CStr(editor))
            IN  IF FileTestIsDir(fs, fullpath)
                THEN /\ last' = Event("save", "SaveIsDir", current_dir)
                     /\ UNCHANGED <<fs, current_dir, listing, selected, editor,
                                    selected_file_path, loaded, changes>>
                ELSE IF ~saved.ok
                THEN /\ last' = Event("save", "WriteError", current_dir)
                     /\ UNCHANGED <<fs, current_dir, listing, selected, editor,
                                    selected_file_path, loaded, changes>>
                ELSE /\ fs' = saved.fs
                     /\ Count
                     /\ row_activated(saved.fs, selected, "save")

\* on_delete_clicked that deletes whatever the answer to the confirmation is
on_delete_clicked_NoConfirm(yes) ==
    /\ IF selected = 0
       THEN /\ last' = Event("delete", "NoSelection", current_dir)
            /\ UNCHANGED <<fs, current_dir, listing, selected, editor,
                           selected_file_path, loaded, changes>>
       ELSE LET name == listing[selected].name
                fullpath == g_build_filename(current_dir, name)
                gone == g_file_delete(fs, fullpath)
            IN  IF ~gone.ok
                THEN /\ last' = Event("delete", "DeleteError", current_dir)
                     /\ UNCHANGED <<fs, current_dir, listing, selected, editor,
                                    selected_file_path, loaded, changes>>
                ELSE /\ fs' = gone.fs
                     /\ Count
                     /\ refresh_file_list(gone.fs, current_dir)
                     /\ last' = Event("delete", "ok", current_dir)
                     /\ UNCHANGED current_dir

\* on_delete_clicked(btn, w), the user answering the confirmation with `yes`
on_delete_clicked(yes) ==
    /\ IF selected = 0
       THEN /\ last' = Event("delete", "NoSelection", current_dir)
            /\ UNCHANGED <<fs, current_dir, listing, selected, editor,
                           selected_file_path, loaded, changes>>
       ELSE LET name == listing[selected].name
                fullpath == g_build_filename(current_dir, name)
                gone == g_file_delete(fs, fullpath)
            IN  IF ~yes
                THEN /\ last' = Event("delete", "Cancelled", current_dir)
                     /\ UNCHANGED <<fs, current_dir, listing, selected, editor,
                                    selected_file_path, loaded, changes>>
                ELSE IF ~gone.ok
                THEN /\ last' = Event("delete", "DeleteError", current_dir)
                     /\ UNCHANGED <<fs, current_dir, listing, selected, editor,
                                    selected_file_path, loaded, changes>>
                ELSE /\ fs' = gone.fs
                     /\ Count
                     /\ refresh_file_list(gone.fs, current_dir)
                     /\ last' = Event("delete", "ok", current_dir)
                     /\ UNCHANGED current_dir

\* on_rename_clicked(btn, w) with `newName` in the name entry
on_rename_clicked(newName) ==
    /\ IF newName = << >>
       THEN /\ last' = Event("rename", "EmptyName", current_dir)
            /\ UNCHANGED <<fs, current_dir, listing, selected, editor,
                           selected_file_path, loaded, changes>>
       ELSE IF selected = 0
       THEN /\ last' = Event("rename", "NoSelection", current_dir)
            /\ UNCHANGED <<fs, current_dir, listing, selected, editor,
                           selected_file_path, loaded, changes>>
       ELSE LET oldName == listing[selected].name
                oldpath == g_build_filename(current_dir, oldName)
                newpath == g_build_filename(current_dir, newName)
                moved == rename(fs, oldpath, newpath)
            IN  IF FileTestExists(fs, newpath)
                THEN /\ last' = Event("rename", "AlreadyExists", current_dir)
                     /\ UNCHANGED <<fs, current_dir, listing, selected, editor,
                                    selected_file_path, loaded, changes>>
                ELSE IF ~moved.ok
                THEN /\ last' = Event("rename", "RenameError", current_dir)
                     /\ UNCHANGED <<fs, current_dir, listing, selected, editor,
                                    selected_file_path, loaded, changes>>
                ELSE /\ fs' = moved.fs
                     /\ Count
                     /\ refresh_file_list(moved.fs, current_dir)
                     /\ last' = Event("rename", "ok", current_dir)
                     /\ UNCHANGED current_dir

\* on_up_clicked without its stop at the root
on_up_clicked_NoRootCheck ==
    /\ current_dir' = g_path_get_dirname(current_dir)
    /\ refresh_file_list(fs, g_path_get_dirname(current_dir))
    /\ last' = Event("up", IF g_dir_open(fs, g_path_get_dirname(current_dir))
                           THEN "ok" ELSE "NavigationError", current_dir)
    /\ UNCHANGED <<fs, changes>>

\* on_up_clicked(btn, w)
on_up_clicked ==
    LET parent == g_path_get_dirname(current_dir)
    IN  IF parent = current_dir
        THEN /\ last' = Event("up", "none", current_dir)
             /\ UNCHANGED <<fs, current_dir, listing, selected, editor, selected_file_path, loaded,
                            changes>>
        ELSE /\ current_dir' = parent
             /\ refresh_file_list(fs, parent)
             /\ last' = Event("up",
                              IF g_dir_open(fs, parent) THEN "ok" ELSE "NavigationError",
                              current_dir)
             /\ UNCHANGED <<fs, changes>>

Next ==
    \/ \E i \in 1..Len(listing) : on_row_activated(i)
    \/ \E i \in 0..Len(listing) : SelectRow(i)
    \/ \E t \in EditorTexts : EditText(t)
    \/ \E name \in EntryTexts : on_new_clicked(name)
    \/ on_save_clicked
    \/ \E yes \in BOOLEAN : on_delete_clicked(yes)
    \/ \E newName \in EntryTexts : on_rename_clicked(newName)
    \/ on_up_clicked

Spec == Init /\ [][Next]_vars

(***************************************************************************)
(* The order the listing is meant to have.                                 *)
(***************************************************************************)
\* the ASCII code of a character of the model's texts
Ascii(c) ==
    CASE c = "a" -> 97 [] c = "c" -> 99
      [] c = "B" -> 66 [] c = "L" -> 76
      [] c = "." -> 46 [] c = "/" -> 47 [] c = "\\" -> 92

\* g_ascii_tolower
g_ascii_tolower(n) == IF n \in 65..90 THEN n + 32 ELSE n

\* g_ascii_strcasecmp(s1, s2): the difference of the first two characters
\* that differ once lowered; the end of a text counts as 0
RECURSIVE g_ascii_strcasecmp(_, _)
g_ascii_strcasecmp(s1, s2) ==
    IF s1 = << >> /\ s2 = << >> THEN 0
    ELSE IF s1 = << >> THEN 0 - Ascii(Head(s2))
    ELSE IF s2 = << >> THEN Ascii(Head(s1))
    ELSE IF g_ascii_tolower(Ascii(Head(s1))) = g_ascii_tolower(Ascii(Head(s2)))
         THEN g_ascii_strcasecmp(Tail(s1), Tail(s2))
    ELSE g_ascii_tolower(Ascii(Head(s1))) - g_ascii_tolower(Ascii(Head(s2)))

(***************************************************************************)
(* The properties.                                                         *)
(***************************************************************************)
Root == <<"/">>
PathB == <<"/", "B">>
NodeA == << <<"a">> >>

\* the path of the selected row
SelectedPath == g_build_filename(current_dir, listing[selected].name)

\* C1: every listing is in ascending case-insensitive order of its names, and
\* shows neither "." nor "..".
C1_ListingSorted ==
    /\ \A i, j \in 1..Len(listing) :
          i < j => g_ascii_strcasecmp(listing[i].name, listing[j].name) <= 0
    /\ \A i \in 1..Len(listing) : ~IsDots(listing[i].name)

\* a node sits where path, less the separators that end it, points
Occupant(f, path) == Lookup(f, SubSeq(path, 1, Len(path) - TrailSeps(path))).ok

\* C2: a create whose target path, less the separators that end it, is
\* occupied by a file or a directory ends with AlreadyExists and leaves the
\* filesystem as it was; so does the same create again after a create that
\* succeeded.
C2_CreateOnOccupiedFails ==
    [][\A name \in EntryTexts \ {<< >>} :
          (/\ last'.op = "new"
           /\ Occupant(fs, g_build_filename(current_dir, name))
           /\ on_new_clicked(name))
          => (last'.res = "AlreadyExists" /\ fs' = fs)]_vars

\* C3: a rename whose new path is occupied ends with AlreadyExists and leaves
\* the filesystem, so both entries, as it was.
C3_RenameOntoExistingFails ==
    [][\A newName \in EntryTexts \ {<< >>} :
          (/\ last'.op = "rename"
           /\ selected # 0
           /\ Lookup(fs, g_build_filename(current_dir, newName)).ok
           /\ on_rename_clicked(newName))
          => (last'.res = "AlreadyExists" /\ fs' = fs)]_vars

\* a rename of a onto B/c was refused with AlreadyExists, both being where
\* they were
C3_Witness ==
    /\ last.op = "rename" /\ last.res = "AlreadyExists"
    /\ current_dir = Root
    /\ selected # 0 /\ listing[selected].name = <<"a">>
    /\ fs = InitFs

\* C4: a confirmed delete of a directory that has descendants succeeds,
\* removes the directory with all below it, and the listing no longer shows it.
C4_DeleteRemovesSubtree ==
    [][(/\ last'.op = "delete"
        /\ selected # 0
        /\ FileTestIsDir(fs, SelectedPath)
        /\ Children(fs, Lookup(fs, SelectedPath).node) # {}
        /\ on_delete_clicked(TRUE))
       => (/\ last'.res = "ok"
           /\ \A n \in DOMAIN fs' : ~IsPrefix(Lookup(fs, SelectedPath).node, n)
           /\ \A i \in 1..Len(listing') : listing'[i].name # listing[selected].name)]_vars

\* C5: a save writes exactly the editor's text as the whole content of the
\* selected file, and the read that follows returns that text.
C5_SaveThenReadRoundTrip ==
    [][(last'.op = "save" /\ last'.res \in {"ok", "MetadataUnavailable"} /\ on_save_clicked)
       => (/\ fs'[Lookup(fs', SelectedPath).node].content = editor
           /\ g_file_get_contents(fs', SelectedPath).ok
           /\ g_file_get_contents(fs', SelectedPath).contents = editor
           /\ editor' = editor)]_vars

\* a save replaced the two bytes of a by the one byte of the editor
C5_Witness ==
    /\ last.op = "save" /\ last.res = "ok"
    /\ editor = <<1>>
    /\ NodeA \in DOMAIN fs /\ fs[NodeA].content = <<1>>

\* a name of the current directory: no separator but, at most, one that ends it
IsPlainName(name) ==
    /\ name # << >>
    /\ ~IsDots(name)
    /\ \A i \in 1..(Len(name) - 1) : name[i] # Sep
    /\ name # <<Sep>>

\* C6: after a create that reports success for a name of the current
\* directory, the listing shows the new entry, as a folder when the name asked
\* for a directory and as a file otherwise.
C6_CreatedEntryListed ==
    [][\A name \in {n \in EntryTexts : IsPlainName(n)} :
          (last'.op = "new" /\ last'.res = "ok" /\ on_new_clicked(name))
          => \E i \in 1..Len(listing') :
                /\ listing'[i].name = Middle(name)
                /\ listing'[i].folder =
                      (g_str_has_suffix(name, "/") \/ g_str_has_suffix(name, "\\"))]_vars

\* C7: after a rename that reports success, the listing shows the new path
\* and no longer shows the old name.
C7_RenamedEntryListed ==
    [][\A newName \in EntryTexts \ {<< >>} :
          (/\ last'.op = "rename" /\ last'.res = "ok"
           /\ selected # 0
           /\ on_rename_clicked(newName))
          => /\ \E i \in 1..Len(listing') :
                   Lookup(fs', g_build_filename(current_dir, listing'[i].name)).node
                     = Lookup(fs', g_build_filename(current_dir, newName)).node
             /\ \A i \in 1..Len(listing') : listing'[i].name # listing[selected].name]_vars

\* C8: Ascend right after Descend from P into a listed directory leaves
\* current_dir equal to P.
C8_DescendThenAscend ==
    [][(last.op = "descend" /\ last'.op = "up" /\ on_up_clicked)
       => current_dir' = last.dir]_vars

\* Ascend took the program from /B, which only Descend from / reaches, back
\* to /
C8_Witness ==
    /\ last.op = "up" /\ last.res = "ok"
    /\ last.dir = PathB
    /\ current_dir = Root

\* C9: Ascend at the filesystem root changes nothing and shows no error.
C9_AscendAtRootIsNoOp ==
    [][(current_dir = Root /\ last'.op = "up" /\ on_up_clicked)
       => (/\ last'.res = "none"
           /\ UNCHANGED <<fs, current_dir, listing, selected, editor,
                          selected_file_path, loaded>>)]_vars

\* Ascend was clicked at the root
C9_Witness ==
    /\ last.op = "up" /\ last.res = "none"
    /\ last.dir = Root
    /\ current_dir = Root

\* C10: current_dir is always a directory that can be opened for listing.
C10_CurrentDirReadable == g_dir_open(fs, current_dir)

\* C11: a save whose selected row is a directory ends with the error of the
\* directory test, not with that of a write, and leaves the filesystem as it
\* was.
C11_SaveOnDirectoryFails ==
    [][(/\ last'.op = "save"
        /\ selected # 0
        /\ Lookup(fs, SelectedPath).ok
        /\ fs[Lookup(fs, SelectedPath).node].kind = "dir"
        /\ on_save_clicked)
       => (last'.res = "SaveIsDir" /\ fs' = fs)]_vars

\* Save was clicked with the row of the directory B selected
C11_Witness ==
    /\ last.op = "save" /\ last.res = "SaveIsDir"
    /\ current_dir = Root
    /\ selected # 0 /\ listing[selected].name = <<"B">>

\* a requested name without the separators, / or \, that end it
StoredName(name) ==
    SubSeq(name, 1, CHOOSE k \in 0..Len(name) :
                       /\ \A i \in (k + 1)..Len(name) : name[i] \in {"/", "\\"}
                       /\ (k = 0 \/ name[k] \notin {"/", "\\"}))

\* C12: a create that succeeds for a name of the current directory that ends
\* with / or \ makes an empty directory, which the listing that follows shows
\* under the name without the separator.
C12_TrailingSeparatorStripped ==
    [][\A name \in {n \in EntryTexts : IsPlainName(StoredName(n)) /\ StoredName(n) # n} :
          (last'.op = "new" /\ last'.res = "ok" /\ on_new_clicked(name))
          => \E i \in 1..Len(listing') :
                /\ listing'[i].name = StoredName(name)
                /\ listing'[i].folder
                /\ Children(fs', Lookup(fs', g_build_filename(current_dir,
                                                              listing'[i].name)).node) = {}]_vars

\* the components of the directory part of a path
DirComponents(path) == SubSeq(Split(path), 1, Len(Split(path)) - 1)

\* C13: the two paths on_rename_clicked hands to rename() have the same
\* directory part, current_dir, and the rename takes no entry out of the
\* current directory.
C13_RenameIsSibling ==
    [][\A newName \in EntryTexts \ {<< >>} :
          (/\ last'.op = "rename" /\ last'.res \in {"ok", "RenameError"}
           /\ selected # 0
           /\ on_rename_clicked(newName))
          => /\ DirComponents(g_build_filename(current_dir, newName))
                  = DirComponents(SelectedPath)
             /\ DirComponents(SelectedPath) = Split(current_dir)
             /\ Cardinality(Children(fs', Lookup(fs', current_dir).node))
                  = Cardinality(Children(fs, Lookup(fs, current_dir).node))]_vars

\* C14: refresh_file_list can fill the list box in one way only for the
\* entries of the current directory: any two listings of them are the same
\* sequence.
C14_ListingDeterministic ==
    \A l1, l2 \in Listings(fs, current_dir) : l1 = l2

\* C15: a delete step changes the filesystem only when the answer to the
\* confirmation was yes, and then removes the selected entry, the one the
\* confirmation named, and nothing else; on another answer the filesystem,
\* current_dir and the listing stay as they were.
C15_DeleteOnlyAfterYes ==
    [][\A yes \in BOOLEAN :
          (last'.op = "delete" /\ on_delete_clicked(yes))
          => /\ ~yes => UNCHANGED <<fs, current_dir, listing>>
             /\ fs' # fs
                  => /\ yes
                     /\ selected # 0
                     /\ fs' = Without(fs, Lookup(fs, SelectedPath).node)
                     /\ DOMAIN fs' = DOMAIN fs \ {Lookup(fs, SelectedPath).node}]_vars

\* the confirmation for the selected file a was answered with no, and a is
\* where it was
C15_Witness ==
    /\ last.op = "delete" /\ last.res = "Cancelled"
    /\ selected # 0 /\ listing[selected].name = <<"a">>
    /\ NodeA \in DOMAIN fs

\* C16: between events the list box shows exactly the entries of current_dir,
\* each once and with its kind.
C16_ListingIsCurrent ==
    /\ {listing[i].name : i \in 1..Len(listing)} = g_dir_read_names(fs, current_dir)
    /\ Len(listing) = Cardinality(g_dir_read_names(fs, current_dir))
    /\ \A i \in 1..Len(listing) : listing[i] = Row(fs, current_dir, listing[i].name)

\* the dialogs that report an error of a create, save, delete or rename
ErrorResults ==
    {"EmptyName", "NoSelection", "AlreadyExists", "CreateError", "SaveIsDir",
     "WriteError", "DeleteError", "RenameError"}

\* C17: a create, save, delete or rename that reports an error leaves the
\* filesystem and current_dir as they were.
C17_FailedOperationChangesNothing ==
    [][(last'.op \in {"new", "save", "delete", "rename"} /\ last'.res \in ErrorResults)
       => (fs' = fs /\ current_dir' = current_dir)]_vars

\* C18: the activation of a row that is no directory shows the content when
\* the read succeeds, whether stat succeeds or fails, and signals that the
\* metadata is unavailable only then; it reports a read error and empties the
\* editor when the read fails; it changes neither the filesystem nor
\* current_dir.
C18_ReadAndStatIndependent ==
    [][\A i \in 1..Len(listing) :
          (last'.op = "read" /\ on_row_activated(i))
          => LET r == g_file_get_contents(fs, g_build_filename(current_dir, listing[i].name))
             IN  /\ r.ok => /\ last'.res \in {"ok", "MetadataUnavailable"}
                             /\ editor' = gtk_text_buffer_set_text(r.contents)
                 /\ ~r.ok => (last'.res = "ReadError" /\ editor' = << >>)
                 /\ last'.res = "MetadataUnavailable" => r.ok
                 /\ fs' = fs /\ current_dir' = current_dir]_vars

\* a was read and is shown, its metadata being unavailable
C18_Witness ==
    /\ last.op = "read" /\ last.res = "MetadataUnavailable"
    /\ current_dir = Root
    /\ selected # 0 /\ listing[selected].name = <<"a">>
    /\ editor = <<1>> /\ fs[NodeA].content = <<1>>

\* C19: a save that writes a file writes the file whose content the last
\* activation of a row loaded into the editor.
C19_SaveWritesLoadedFile ==
    [][(/\ last'.op = "save" /\ last'.res \in {"ok", "MetadataUnavailable"}
        /\ on_save_clicked)
       => loaded = SelectedPath]_vars

\* C20: the program starts with the editor empty, no row selected and
\* selected_file_path unset, and a step that refreshes the listing leaves
\* them so; and while no row is selected a
\* save, a delete or a rename reports an error and changes neither the
\* filesystem nor current_dir.
C20_NothingSelectedAfterRefresh ==
    [][/\ last.op = "main"
           => (editor = << >> /\ selected = 0 /\ selected_file_path = NULL)
       /\ (\/ last'.op = "descend"
           \/ (last'.op = "up" /\ last'.res # "none")
           \/ (last'.op \in {"new", "delete", "rename"} /\ last'.res = "ok"))
           => (editor' = << >> /\ selected' = 0 /\ selected_file_path' = NULL)
       /\ (selected = 0 /\ last'.op \in {"save", "delete", "rename"})
           => /\ last'.res \in {"NoSelection", "EmptyName"}
              /\ fs' = fs /\ current_dir' = current_dir]_vars

\* after the descent into B refreshed the listing, a save was refused for the
\* want of a selected row
C20_Witness ==
    /\ last.op = "save" /\ last.res = "NoSelection"
    /\ current_dir = PathB /\ fs = InitFs
    /\ selected = 0 /\ editor = << >> /\ selected_file_path = NULL

=============================================================================
